---- MODULE Spec2Model ----
(***************************************************************************)
(* Model of deb_installer_gui.py: the DebInstallerGUI event handlers (Qt   *)
(* single-shot timers, modal dialogs with their nested event loops, the    *)
(* select button) and the InstallWorker thread's run().                    *)
(*                                                                         *)
(* Text is a sequence of one-character strings, so that lower(), strip(),  *)
(* "in" and endswith() are computed and not assumed.  The constant parts   *)
(* of the program's messages are single symbols of such a sequence.        *)
(***************************************************************************)
EXTENDS Integers, Sequences, FiniteSets, TLC

(***************************************************************************)
(* Bounds of the model.                                                    *)
(***************************************************************************)
\* password dialogs shown in one process lifetime
MaxPrompts == 3
\* clicks on the 'Select .deb Package' button in one process lifetime
MaxClicks == 2

(***************************************************************************)
(* Python values and string operations.                                    *)
(***************************************************************************)
\* Python's None, as a text no input can be
NoneVal == <<"<None>">>

\* bool(x) of a str-or-None value
Truthy(x) == x # NoneVal /\ x # <<>>

LowerLetters == <<"a", "b", "c", "d", "e", "f", "g", "h", "i", "j", "k", "l", "m", "n", "o", "p", "q", "r", "s", "t", "u", "v", "w", "x", "y", "z">>

UpperLetters == <<"A", "B", "C", "D", "E", "F", "G", "H", "I", "J", "K", "L", "M", "N", "O", "P", "Q", "R", "S", "T", "U", "V", "W", "X", "Y", "Z">>

\* str.lower() of one character
LowerChar(c) ==
    IF \E k \in 1..26 : UpperLetters[k] = c
    THEN LowerLetters[CHOOSE k \in 1..26 : UpperLetters[k] = c]
    ELSE c

\* str.lower()
Lower(s) == [i \in 1..Len(s) |-> LowerChar(s[i])]

\* sub in s
Contains(sub, s) ==
    \E i \in 0..(Len(s) - Len(sub)) : SubSeq(s, i + 1, i + Len(sub)) = sub

\* s.endswith(suf)
EndsWith(s, suf) ==
    /\ Len(s) >= Len(suf)
    /\ SubSeq(s, Len(s) - Len(suf) + 1, Len(s)) = suf

\* s.startswith(pre)
StartsWith(s, pre) ==
    /\ Len(s) >= Len(pre)
    /\ SubSeq(s, 1, Len(pre)) = pre

IsSpace(c) == c \in {" ", "\t", "\n", "\r"}

NonSpaceIdx(s) == {i \in 1..Len(s) : ~IsSpace(s[i])}

SetMax(S) == CHOOSE x \in S : \A y \in S : y <= x

SetMin(S) == CHOOSE x \in S : \A y \in S : x <= y

\* str.rstrip()
RStrip(s) ==
    IF NonSpaceIdx(s) = {} THEN <<>> ELSE SubSeq(s, 1, SetMax(NonSpaceIdx(s)))

\* str.strip()
Strip(s) ==
    IF NonSpaceIdx(s) = {} THEN <<>>
    ELSE SubSeq(s, SetMin(NonSpaceIdx(s)), SetMax(NonSpaceIdx(s)))

(***************************************************************************)
(* Inputs of the presentation layer.                                       *)
(***************************************************************************)
\* the text typed into SudoPasswordDialog
PwRight == <<"p", "w">>

PwOther == <<"x">>

Candidates == {<<>>, <<" ", "\t">>, PwRight, PwOther}

\* what QFileDialog.getOpenFileName returns ("" when cancelled)
DebA == <<"/", "d", "/", "a", "_", "1", ".", "d", "e", "b">>

DebB == <<"/", "d", "/", "b", ".", "d", "e", "b">>

NotDeb == <<"/", "d", "/", "a", ".", "t", "x", "t">>

FileDialogResults == {<<>>, DebA, DebB, NotDeb}

\* sys.argv[1] as main() hands it to the window: a .deb path or None
ArgvFiles == {NoneVal, DebA}

\* what the two sudo probes of get_sudo_password can answer
SorryMsg == <<"S", "o", "r", "r", "y", ",", " ", "t", "r", "y", " ", "a", "g", "a", "i", "n", ".">>

SudoersMsg == <<"u", " ", "i", "s", " ", "n", "o", "t", " ", "i", "n", " ", "t", "h", "e", " ", "s", "u", "d", "o", "e", "r", "s", " ", "f", "i", "l", "e", ".">>

SorrySudoersMsg == <<"S", "o", "r", "r", "y", ",", " ", "u", "s", "e", "r", " ", "u", " ", "i", "s", " ", "n", "o", "t", " ", "i", "n", " ", "t", "h", "e", " ", "s", "u", "d", "o", "e", "r", "s", " ", "f", "i", "l", "e", ".">>

OtherErrMsg == <<"s", "u", "d", "o", ":", " ", "e", "r", "r", "o", "r">>

ProbeStderrs == {<<>>, SorryMsg, SudoersMsg, SorrySudoersMsg, OtherErrMsg}

WhoamiRoot == <<"r", "o", "o", "t", "\n">>

WhoamiUser == <<"u", "\n">>

\* raise: Popen or communicate raised; rc, stderr: 'sudo -S -v';
\* rc2, stdout2: 'sudo -S whoami' (run only when rc = 0)
ProbeOutcomes ==
    {[raise |-> TRUE, rc |-> 0, stderr |-> <<>>, rc2 |-> 0, stdout2 |-> <<>>]}
    \cup {[raise |-> FALSE, rc |-> 0, stderr |-> <<>>, rc2 |-> r, stdout2 |-> s] :
            r \in {0, 1}, s \in {WhoamiRoot, WhoamiUser}}
    \cup {[raise |-> FALSE, rc |-> 1, stderr |-> e, rc2 |-> 0, stdout2 |-> <<>>] :
            e \in ProbeStderrs}

STR_incorrect_password == <<"i", "n", "c", "o", "r", "r", "e", "c", "t", " ", "p", "a", "s", "s", "w", "o", "r", "d">>

STR_sorry == <<"s", "o", "r", "r", "y">>

STR_not_in_sudoers == <<"n", "o", "t", " ", "i", "n", " ", "t", "h", "e", " ", "s", "u", "d", "o", "e", "r", "s", " ", "f", "i", "l", "e">>

STR_root == <<"r", "o", "o", "t">>

STR_deb == <<".", "d", "e", "b">>

(***************************************************************************)
(* State.                                                                  *)
(***************************************************************************)
VARIABLES
    deb_file_path,   \* DebInstallerGUI.deb_file_path
    sudo_password,   \* DebInstallerGUI.sudo_password
    select_btn,      \* "absent" | "visible" | "hidden"
    timers,          \* pending QTimer.singleShot callbacks, per slot
    stack,           \* handlers blocked in a modal dialog, innermost last
    quit,            \* QApplication.quit() was called
    workers,         \* the InstallWorker threads started so far
    validated,       \* history: the candidates that passed both probes
    attempt,         \* history: the latest candidate and how it was checked
    prompts,         \* history: password dialogs shown
    clicks           \* history: clicks on the select button

vars == <<deb_file_path, sudo_password, select_btn, timers, stack, quit,
          workers, validated, attempt, prompts, clicks>>

gui_vars == <<deb_file_path, sudo_password, select_btn, timers, stack, quit,
              validated, attempt, prompts, clicks>>

NoTimers == [get_sudo_password |-> 0, select_file |-> 0, confirm_and_install |-> 0]

\* QTimer.singleShot(500, slot)
singleShot(t, slot) == [t EXCEPT ![slot] = @ + 1]

\* a handler blocked in the nested event loop of a modal dialog;
\* then: what the handler does once the dialog is closed
Frame(h, at, then) == [h |-> h, at |-> at, then |-> then]

Top == stack[Len(stack)]

Pop == SubSeq(stack, 1, Len(stack) - 1)

\* no sudo probe was run
NoOutcome == [raise |-> FALSE, rc |-> -1, stderr |-> <<>>, rc2 |-> -1, stdout2 |-> <<>>]

\* no candidate has been entered into the dialog that is open, if any
NoAttempt == [candidate |-> NoneVal, probes |-> 0, result |-> "none", outcome |-> NoOutcome]

\* candidate c was checked with so many sudo probes and that result
Attempt(c, n, result) ==
    [candidate |-> c, probes |-> n, result |-> result, outcome |-> NoOutcome]

\* ... and the probes answered o
Probed(a, o) == [a EXCEPT !.outcome = o]

\* the event loop (main or nested) dispatches events
Dispatching == ~quit

(***************************************************************************)
(* InstallWorker: signals, child processes, files.                         *)
(***************************************************************************)
\* the signals of InstallWorker, as emitted events
Log(text) == [sig |-> "console_output", text |-> text, n |-> 0]

Status(text) == [sig |-> "progress_update", text |-> text, n |-> 0]

Percent(n) == [sig |-> "progress_value", text |-> <<>>, n |-> n]

Timing(text) == [sig |-> "time_update", text |-> text, n |-> 0]

Finished(ok, text) == [sig |-> "finished", text |-> text, n |-> IF ok THEN 1 ELSE 0]

IsPercent(e) == e.sig = "progress_value"

IsFinished(e) == e.sig = "finished"

IsLog(e) == e.sig = "console_output"

\* no child process (run_sudo_command returned None, or none was started)
NoProc == [started |-> FALSE, sudo |-> FALSE, argv |-> <<>>, io |-> <<>>]

Write(text) == [op |-> "write", text |-> text]

Read == [op |-> "read", text |-> <<>>]

IsRead(x) == x.op = "read"

IsWrite(x) == x.op = "write"

\* InstallWorker.__init__ and the locals of run()
\*   out: the events emitted by the worker's latest step
\*   progress, finished: all progress_value / finished events so far
\*   delivered: finished events the GUI thread has handled
\*   seen: history of what was called and what the tools answered
\*   input: the child output consumed by the latest streaming turn
NewWorker(deb, pw) ==
    [pc |-> "start", last |-> "init",
     deb_file_path |-> deb, sudo_password |-> pw,
     temp_dir |-> NoneVal, dir_exists |-> FALSE, listing |-> <<>>,
     rm_count |-> 0, cwd |-> "original",
     file_size |-> 0, conversion_time |-> 0, install_time |-> 0,
     mgr |-> 0, proc |-> NoProc, output_lines |-> <<>>,
     arch_package |-> NoneVal,
     out |-> <<>>, progress |-> <<>>, finished |-> <<>>, delivered |-> 0,
     seen |-> {}, input |-> <<>>, tried |-> <<>>]

(***************************************************************************)
(* DebInstallerGUI                                                         *)
(***************************************************************************)
\* DebInstallerGUI.__init__ and init_ui
Init ==
    /\ deb_file_path \in ArgvFiles
    /\ sudo_password = NoneVal
    /\ select_btn = IF Truthy(deb_file_path) THEN "absent" ELSE "visible"
    /\ timers = singleShot(NoTimers, "get_sudo_password")
    /\ stack = <<>>
    /\ quit = FALSE
    /\ workers = <<>>
    /\ validated = {}
    /\ attempt = NoAttempt
    /\ prompts = 0
    /\ clicks = 0

\* as IsBlank, had the test been 'if not self.sudo_password'
IsBlank_unstripped(c) == c = <<>>

\* if not self.sudo_password.strip()
IsBlank(c) == Strip(c) = <<>>

\* the message box get_sudo_password shows for a failed 'sudo -S -v'
AuthFailureBox(stderr) ==
    LET error_msg == IF Truthy(Strip(stderr)) THEN Lower(Strip(stderr)) ELSE <<>>
    IN  IF Contains(STR_incorrect_password, error_msg) \/ Contains(STR_sorry, error_msg)
        THEN Frame("get_sudo_password", "Incorrect Password", "reprompt")
        ELSE IF Contains(STR_not_in_sudoers, error_msg)
        THEN Frame("get_sudo_password", "Permission Denied", "quit")
        ELSE Frame("get_sudo_password", "Authentication Failed", "reprompt")

\* as IdentityConfirmed, had the output of whoami not been looked at
IdentityConfirmed_rc_only(o) == o.rc2 = 0

\* test_process.returncode == 0 and 'root' in test_stdout
IdentityConfirmed(o) == o.rc2 = 0 /\ Contains(STR_root, o.stdout2)

\* the single-shot timer fires: get_sudo_password opens the password dialog
get_sudo_password ==
    /\ Dispatching
    /\ timers.get_sudo_password > 0
    /\ prompts < MaxPrompts
    /\ timers' = [timers EXCEPT !.get_sudo_password = @ - 1]
    /\ stack' = Append(stack, Frame("get_sudo_password", "SudoPasswordDialog", "validate"))
    /\ prompts' = prompts + 1
    /\ attempt' = NoAttempt
    /\ UNCHANGED <<deb_file_path, sudo_password, select_btn, quit, workers,
                   validated, clicks>>

\* dialog.exec_() == QDialog.Accepted with candidate c; the probes answer o
get_sudo_password_accepted(c, o) ==
    /\ Dispatching
    /\ stack # <<>>
    /\ Top.at = "SudoPasswordDialog"
    /\ sudo_password' = c
    /\ IF IsBlank(c)
       THEN /\ stack' = Append(Pop, Frame("get_sudo_password", "Invalid Password", "reprompt"))
            /\ attempt' = Attempt(c, 0, "blank")
            /\ UNCHANGED <<timers, validated>>
       ELSE IF o.raise
       THEN /\ stack' = Append(Pop, Frame("get_sudo_password", "Error", "reprompt"))
            /\ attempt' = Probed(Attempt(c, 1, "error"), o)
            /\ UNCHANGED <<timers, validated>>
       ELSE IF o.rc # 0
       THEN /\ stack' = Append(Pop, AuthFailureBox(o.stderr))
            /\ attempt' = Probed(Attempt(c, 1, "refresh_failed"), o)
            /\ UNCHANGED <<timers, validated>>
       ELSE IF IdentityConfirmed(o)
       THEN /\ stack' = Pop
            /\ timers' = singleShot(timers, IF Truthy(deb_file_path)
                                            THEN "confirm_and_install"
                                            ELSE "select_file")
            /\ validated' = validated \cup {c}
            /\ attempt' = Probed(Attempt(c, 2, "validated"), o)
       ELSE /\ stack' = Append(Pop, Frame("get_sudo_password", "Authentication Failed", "reprompt"))
            /\ attempt' = Probed(Attempt(c, 2, "identity_failed"), o)
            /\ UNCHANGED <<timers, validated>>
    /\ UNCHANGED <<deb_file_path, select_btn, quit, workers, prompts, clicks>>

\* dialog.exec_() returned Rejected
get_sudo_password_rejected ==
    /\ Dispatching
    /\ stack # <<>>
    /\ Top.at = "SudoPasswordDialog"
    /\ stack' = Append(Pop, Frame("get_sudo_password", "Access Required", "quit"))
    /\ UNCHANGED <<deb_file_path, sudo_password, select_btn, timers, quit, workers,
                   validated, attempt, prompts, clicks>>

\* a QMessageBox of get_sudo_password or select_file is closed and the
\* handler runs to its end
message_box_closed ==
    /\ Dispatching
    /\ stack # <<>>
    /\ Top.then \in {"reprompt", "quit", "reselect"}
    /\ stack' = Pop
    /\ timers' = IF Top.then = "reprompt" THEN singleShot(timers, "get_sudo_password")
                 ELSE IF Top.then = "reselect" THEN singleShot(timers, "select_file")
                 ELSE timers
    /\ quit' = (Top.then = "quit")
    /\ UNCHANGED <<deb_file_path, sudo_password, select_btn, workers,
                   validated, attempt, prompts, clicks>>

\* select_file opens the file dialog: from its single-shot timer ...
select_file ==
    /\ Dispatching
    /\ timers.select_file > 0
    /\ timers' = [timers EXCEPT !.select_file = @ - 1]
    /\ stack' = Append(stack, Frame("select_file", "QFileDialog", "chosen"))
    /\ UNCHANGED <<deb_file_path, sudo_password, select_btn, quit, workers,
                   validated, attempt, prompts, clicks>>

\* ... or from select_btn.clicked; a modal dialog blocks the main window
select_btn_clicked ==
    /\ Dispatching
    /\ select_btn = "visible"
    /\ stack = <<>>
    /\ clicks < MaxClicks
    /\ clicks' = clicks + 1
    /\ stack' = Append(stack, Frame("select_file", "QFileDialog", "chosen"))
    /\ UNCHANGED <<deb_file_path, sudo_password, select_btn, timers, quit, workers,
                   validated, attempt, prompts>>

\* QFileDialog.getOpenFileName returned file_path
select_file_result(file_path) ==
    /\ Dispatching
    /\ stack # <<>>
    /\ Top.at = "QFileDialog"
    /\ IF Truthy(file_path) /\ EndsWith(file_path, STR_deb)
       THEN /\ deb_file_path' = file_path
            /\ select_btn' = IF select_btn = "absent" THEN "absent" ELSE "hidden"
            /\ timers' = singleShot(timers, "confirm_and_install")
            /\ stack' = Pop
            /\ UNCHANGED quit
       ELSE IF ~Truthy(file_path)
       THEN /\ quit' = TRUE
            /\ stack' = Pop
            /\ UNCHANGED <<deb_file_path, select_btn, timers>>
       ELSE /\ stack' = Append(Pop, Frame("select_file", "Invalid File", "reselect"))
            /\ UNCHANGED <<deb_file_path, select_btn, timers, quit>>
    /\ UNCHANGED <<sudo_password, workers, validated, attempt, prompts, clicks>>

\* the single-shot timer fires: confirm_and_install asks 'Install ...?'
confirm_and_install ==
    /\ Dispatching
    /\ timers.confirm_and_install > 0
    /\ timers' = [timers EXCEPT !.confirm_and_install = @ - 1]
    /\ stack' = IF ~Truthy(deb_file_path) THEN stack
                ELSE Append(stack, Frame("confirm_and_install", "Install Package", "reply"))
    /\ UNCHANGED <<deb_file_path, sudo_password, select_btn, quit, workers,
                   validated, attempt, prompts, clicks>>

\* start_installation: self.worker = InstallWorker(...); self.worker.start()
start_installation == Append(workers, NewWorker(deb_file_path, sudo_password))

\* QMessageBox.question returned reply
confirm_and_install_reply(yes) ==
    /\ Dispatching
    /\ stack # <<>>
    /\ Top.at = "Install Package"
    /\ stack' = Pop
    /\ IF yes
       THEN workers' = start_installation /\ UNCHANGED quit
       ELSE quit' = TRUE /\ UNCHANGED workers
    /\ UNCHANGED <<deb_file_path, sudo_password, select_btn, timers,
                   validated, attempt, prompts, clicks>>

(***************************************************************************)
(* InstallWorker.run                                                       *)
(***************************************************************************)
\* reads of a child's output per streaming loop
MaxReads == 2

MiB == 1048576

\* os.path.getsize(self.deb_file_path), in bytes
FileSizes == {0, 13369344}

Max2(a, b) == IF a >= b THEN a ELSE b

\* as ConversionTime, had the factor 2 been left out
ConversionTime_unscaled(bytes) == Max2(10, bytes \div MiB)

\* max(10, int(file_size_mb * 2))
ConversionTime(bytes) == Max2(10, (2 * bytes) \div MiB)

\* max(5, int(file_size_mb * 0.5))
InstallTime(bytes) == Max2(5, bytes \div (2 * MiB))

\* os.path.basename
Basename(path) ==
    LET slashes == {i \in 1..Len(path) : path[i] = "/"}
    IN  IF slashes = {} THEN path ELSE SubSeq(path, SetMax(slashes) + 1, Len(path))

\* os.path.join(a, b) for a relative b
Join(a, b) == a \o <<"/">> \o b

\* s.split(sep)[0]
SplitFirst(s, sep) ==
    LET at == {i \in 1..Len(s) : s[i] = sep}
    IN  IF at = {} THEN s ELSE SubSeq(s, 1, SetMin(at) - 1)

\* s.split('\n')
RECURSIVE SplitLines(_)
SplitLines(s) ==
    LET at == {i \in 1..Len(s) : s[i] = "\n"}
    IN  IF at = {} THEN <<s>>
        ELSE <<SubSeq(s, 1, SetMin(at) - 1)>> \o SplitLines(SubSeq(s, SetMin(at) + 1, Len(s)))

\* "="*50, "-" * 50 and a formatted duration
Rule == <<"==================================================">>

Dashes == <<"--------------------------------------------------">>

Secs == <<"<seconds:.1f>">>

PercentValue(e) == e.n

\* as progress_percent, had the conversion been reported done at 80
progress_percent_late(step) ==
    CASE step = "checking" -> 5
      [] step = "workspace" -> 10
      [] step = "copy" -> 15
      [] step = "convert" -> 20
      [] step = "converted" -> 80
      [] step = "install" -> 75
      [] step = "done" -> 100

\* as progress_percent, had the conversion been announced at 25
progress_percent_quarter(step) ==
    CASE step = "checking" -> 5
      [] step = "workspace" -> 10
      [] step = "copy" -> 15
      [] step = "convert" -> 25
      [] step = "converted" -> 70
      [] step = "install" -> 75
      [] step = "done" -> 100

\* the argument of each progress_value.emit of run()
progress_percent(step) ==
    CASE step = "checking" -> 5
      [] step = "workspace" -> 10
      [] step = "copy" -> 15
      [] step = "convert" -> 20
      [] step = "converted" -> 70
      [] step = "install" -> 75
      [] step = "done" -> 100

\* a step of the worker: it is at pc, has emitted evs; signals are appended
\* to what the GUI thread will receive
Emit(w, pc, last, evs) ==
    [w EXCEPT !.pc = pc, !.last = last, !.out = evs,
              !.progress = @ \o (LET ps == SelectSeq(evs, IsPercent)
                                   IN  [k \in DOMAIN ps |-> PercentValue(ps[k])]),
              !.finished = @ \o SelectSeq(evs, IsFinished)]

\* as run_except, had the handler only logged the error
run_except_silent(w, last, evs, e) ==
    Emit(w, "finally", last,
         evs \o <<Log(<<"Error after ">> \o Secs \o <<"s: ">> \o e)>>)

\* lines 195-198: except Exception as e
run_except(w, last, evs, e) ==
    Emit(w, "finally", last,
         evs \o <<Log(<<"Error after ">> \o Secs \o <<"s: ">> \o e),
                  Finished(FALSE, <<"Error after ">> \o Secs \o <<"s: ">> \o e)>>)

\* what str(e) of an OSError of the run can be
OSErrorText == <<"[Errno 2] No such file or directory">>

\* lines 84-103: the estimates and the announcement
run_announce(w, bytes) ==
    LET total_estimated == ConversionTime(bytes) + InstallTime(bytes) + 5
    IN  [Emit(w, "check_debtap", "run_announce",
              <<Log(<<"Package: ">> \o Basename(w.deb_file_path)),
                Log(<<"Size: ", "<file_size_mb:.1f>", " MB">>),
                Log(<<"Estimated time: ~", ToString(total_estimated), " seconds\n">>),
                Timing(<<"Estimated time: ~", ToString(total_estimated), " seconds">>),
                Status(<<"Checking for debtap...">>),
                Percent(progress_percent("checking")),
                Log(Rule), Log(<<"STEP 1/4: Checking debtap">>), Log(Rule)>>)
         EXCEPT !.file_size = bytes,
                !.conversion_time = ConversionTime(bytes),
                !.install_time = InstallTime(bytes),
                !.seen = @ \cup {"estimated"}]

\* lines 106-109: check_debtap() returned False
check_debtap_failed(w, last, evs) ==
    [Emit(w, "finally", last,
          evs \o <<Log(<<"debtap setup failed!">>),
                   Finished(FALSE, <<"debtap setup failed! Please check the console output for details.">>)>>)
     EXCEPT !.seen = @ \cup {"check_debtap_failed"}]

\* lines 111-120: check_debtap() returned True
check_debtap_passed(w, last, evs) ==
    [Emit(w, "mkdtemp", last,
          evs \o <<Log(<<"debtap ready! (">> \o Secs \o <<"s)\n">>),
                   Timing(<<"debtap check completed in ">> \o Secs \o <<"s">>),
                   Status(<<"Preparing workspace...">>),
                   Percent(progress_percent("workspace")),
                   Log(Rule), Log(<<"STEP 2/4: Preparing workspace">>), Log(Rule)>>)
     EXCEPT !.proc = NoProc, !.mgr = 0]

\* tempfile.mkdtemp(prefix="deb_installer_") of worker i
TempDirName(i) == <<"/tmp/deb_installer_", ToString(i)>>

\* lines 122-127
run_workspace(w, i) ==
    [Emit(w, "copy", "run_workspace",
          <<Log(<<"Working directory: ">> \o TempDirName(i)),
            Status(<<"Copying package file...">>),
            Percent(progress_percent("copy"))>>)
     EXCEPT !.temp_dir = TempDirName(i), !.dir_exists = TRUE, !.listing = <<>>]

\* lines 130-145
run_copy(w) ==
    LET deb_filename == Basename(w.deb_file_path)
    IN  [Emit(w, "convert", "run_copy",
              <<Log(<<"File copied in ">> \o Secs \o <<"s\n">>),
                Timing(<<"File copied in ">> \o Secs \o <<"s">>),
                Status(<<"Converting package... (est. ", ToString(w.conversion_time), "s)">>),
                Percent(progress_percent("convert")),
                Log(Rule), Log(<<"STEP 3/4: Converting package">>), Log(Rule),
                Log(<<"Converting ">> \o deb_filename \o <<" to Arch package...">>),
                Log(<<"Running: debtap -q ">> \o deb_filename),
                Log(Dashes)>>)
         EXCEPT !.listing = <<deb_filename>>]

\* as run_convert_failed, had the 'return' of line 154 been left out
run_convert_failed_no_return(w, evs) ==
    [Emit(w, "install", "convert_deb_package",
          evs \o <<Log(<<"Conversion failed after ">> \o Secs \o <<"s">>),
                   Finished(FALSE, <<"Failed to convert .deb package after ">> \o Secs \o <<"s">>)>>)
     EXCEPT !.seen = @ \cup {"convert_failed"}]

\* lines 151-154: convert_deb_package returned None
run_convert_failed(w, evs) ==
    [Emit(w, "finally", "convert_deb_package",
          evs \o <<Log(<<"Conversion failed after ">> \o Secs \o <<"s">>),
                   Finished(FALSE, <<"Failed to convert .deb package after ">> \o Secs \o <<"s">>)>>)
     EXCEPT !.seen = @ \cup {"convert_failed"}]

\* lines 156-171: the artifact was found
run_converted(w, evs, arch_package) ==
    [Emit(w, "install", "convert_deb_package",
          evs \o <<Log(Dashes),
                   Log(<<"Conversion completed in ">> \o Secs \o <<"s">>),
                   Log(<<"Generated: ">> \o Basename(arch_package) \o <<" (", "<pkg_size_mb:.1f>", " MB)\n">>),
                   Timing(<<"Conversion completed in ">> \o Secs \o <<"s">>),
                   Percent(progress_percent("converted")),
                   Status(<<"Installing package... (", "<pkg_size_mb:.1f>", " MB)">>),
                   Percent(progress_percent("install")),
                   Log(Rule), Log(<<"STEP 4/4: Installing package">>), Log(Rule),
                   Log(<<"Installing ">> \o Basename(arch_package) \o <<"...">>),
                   Log(<<"Running: sudo pacman -U --noconfirm">>),
                   Log(Dashes)>>)
     EXCEPT !.arch_package = arch_package]

\* as run_installed, had the result message not carried the total time
run_installed_plain(w, evs) ==
    [Emit(w, "finally", "install_arch_package",
          evs \o <<Log(Dashes),
                   Log(<<"Installation completed in ">> \o Secs \o <<"s">>),
                   Log(<<"\n">> \o Rule), Log(<<"SUCCESS!">>), Log(Rule),
                   Log(<<"Total time", ": ">> \o Secs \o <<" seconds">>),
                   Status(<<"Installation completed!">>),
                   Percent(progress_percent("done")),
                   Timing(<<"Total time", ": ">> \o Secs \o <<"s">>),
                   Finished(TRUE, <<"Package installed successfully!">>)>>)
     EXCEPT !.proc = NoProc]

\* lines 175-188: install_arch_package returned True
run_installed(w, evs) ==
    [Emit(w, "finally", "install_arch_package",
          evs \o <<Log(Dashes),
                   Log(<<"Installation completed in ">> \o Secs \o <<"s">>),
                   Log(<<"\n">> \o Rule), Log(<<"SUCCESS!">>), Log(Rule),
                   Log(<<"Total time", ": ">> \o Secs \o <<" seconds">>),
                   Status(<<"Installation completed!">>),
                   Percent(progress_percent("done")),
                   Timing(<<"Total time", ": ">> \o Secs \o <<"s">>),
                   Finished(TRUE, <<"Package installed successfully!", "\n", "Total time", ": ">>
                                  \o Secs \o <<" seconds">>)>>)
     EXCEPT !.proc = NoProc]

\* lines 190-193: install_arch_package returned False
run_install_failed(w, evs) ==
    [Emit(w, "finally", "install_arch_package",
          evs \o <<Log(Dashes),
                   Log(<<"Installation failed after ">> \o Secs \o <<"s">>),
                   Finished(FALSE, <<"Failed to install package after ">> \o Secs \o <<"s">>)>>)
     EXCEPT !.proc = NoProc]

\* as run_finally, had the cleanup been the last statement of the success
\* branch instead of a finally clause
run_finally_success_only(w) ==
    IF Truthy(w.temp_dir) /\ w.dir_exists /\ w.finished # <<>> /\ w.finished[1].n = 1
    THEN [Emit(w, "done", "run_finally",
               <<Log(<<"\n", "Cleaning up temporary files...">>),
                 Log(<<"Cleanup complete">>)>>)
          EXCEPT !.dir_exists = FALSE, !.listing = <<>>, !.rm_count = @ + 1]
    ELSE Emit(w, "done", "run_finally", <<>>)

\* lines 199-204: finally
run_finally(w) ==
    IF Truthy(w.temp_dir) /\ w.dir_exists
    THEN [Emit(w, "done", "run_finally",
               <<Log(<<"\n", "Cleaning up temporary files...">>),
                 Log(<<"Cleanup complete">>)>>)
          EXCEPT !.dir_exists = FALSE, !.listing = <<>>, !.rm_count = @ + 1]
    ELSE Emit(w, "done", "run_finally", <<>>)

\* as run_sudo_command, had the password been piped in by a shell command
run_sudo_command_echo(pw, cmd) ==
    IF ~Truthy(pw) THEN NoProc
    ELSE [started |-> TRUE, sudo |-> TRUE,
          argv |-> << <<"sh">>, <<"-c">>, <<"echo ">> \o pw \o <<" | sudo -S">> >> \o cmd,
          io |-> <<>>]

\* as run_sudo_command, had the test of the stored password (208-209) been
\* left out
run_sudo_command_unchecked(pw, cmd) ==
    [started |-> TRUE, sudo |-> TRUE,
     argv |-> << <<"sudo">>, <<"-S">> >> \o cmd,
     io |-> <<Write(pw \o <<"\n">>)>>]

\* lines 206-227: run_sudo_command
run_sudo_command(pw, cmd) ==
    IF ~Truthy(pw) THEN NoProc
    ELSE [started |-> TRUE, sudo |-> TRUE,
          argv |-> << <<"sudo">>, <<"-S">> >> \o cmd,
          io |-> <<Write(pw \o <<"\n">>)>>]

\* the worker thread i takes a step; it dies with the process
WorkerStep(i, w) ==
    /\ ~quit
    /\ workers' = [workers EXCEPT ![i] = w]
    /\ UNCHANGED gui_vars

\* run() starts: os.path.getsize answers bytes, or raises
run(i, bytes, raises) ==
    /\ workers[i].pc = "start"
    /\ WorkerStep(i, IF raises
                     THEN run_except(workers[i], "run_announce", <<>>, OSErrorText)
                     ELSE run_announce(workers[i], bytes))

\* tempfile.mkdtemp answers, or raises
prepare_workspace(i, raises) ==
    LET w == [workers[i] EXCEPT !.tried = <<>>]
    IN  /\ w.pc = "mkdtemp"
        /\ WorkerStep(i, IF raises
                         THEN run_except(w, "run_workspace", <<>>, OSErrorText)
                         ELSE run_workspace(w, i))

\* shutil.copy2 answers, or raises
copy_input(i, raises) ==
    /\ workers[i].pc = "copy"
    /\ WorkerStep(i, IF raises
                     THEN run_except(workers[i], "run_copy", <<>>, OSErrorText)
                     ELSE run_copy(workers[i]))

\* the finally clause of run()
cleanup(i) ==
    /\ workers[i].pc = "finally"
    /\ WorkerStep(i, run_finally(workers[i]))

(***************************************************************************)
(* InstallWorker.check_debtap and install_debtap                           *)
(***************************************************************************)
\* what subprocess.run(['which', name]) can do
WhichResults == {"found", "missing", "raise"}

\* lines 250-254
package_managers ==
    << [cmd |-> << <<"yay">>, <<"-S">>, <<"--noconfirm">>, <<"debtap">> >>, name |-> <<"yay">>],
       [cmd |-> << <<"paru">>, <<"-S">>, <<"--noconfirm">>, <<"debtap">> >>, name |-> <<"paru">>],
       [cmd |-> << <<"pamac">>, <<"install">>, <<"--no-confirm">>, <<"debtap">> >>, name |-> <<"pamac">>] >>

STR_password == <<"p", "a", "s", "s", "w", "o", "r", "d">>

\* what a backend manager or 'debtap -u' under sudo can print: a line as
\* readline() returns it ("" at end of file), and the rest read() returns
SudoPromptLine == <<"[", "s", "u", "d", "o", "]", " ", "p", "a", "s", "s", "w", "o", "r", "d", " ", "f", "o", "r", " ", "u", ":", " ", "\n">>

PasswordLine == <<"P", "a", "s", "s", "w", "o", "r", "d", ":", "\n">>

InstallingLine == <<"i", "n", "s", "t", "a", "l", "l", "i", "n", "g", " ", "d", "e", "b", "t", "a", "p", "\n">>

BackendLines == {<<>>, <<"\n">>, SudoPromptLine, PasswordLine, InstallingLine}

BackendRemaining ==
    {<<>>, <<"o", "k", "\n", "P", "A", "S", "S", "W", "O", "R", "D", " ", "c", "a", "c", "h", "e", "d", "\n">>}

\* as password_free, had the test been case-sensitive
password_free_exact(line) == ~Contains(STR_password, line)

\* 'password' not in line.lower()
password_free(line) == ~Contains(STR_password, Lower(line))

\* lines 276-280 (and 310-313): one line of the child's output
stream_line(line) ==
    IF Truthy(line) /\ Truthy(RStrip(line)) /\ password_free(RStrip(line))
    THEN <<Log(<<"  ">> \o RStrip(line))>>
    ELSE <<>>

ShownRemaining(line) == Truthy(Strip(line)) /\ password_free(line)

IndentedLog(line) == Log(<<"  ">> \o RStrip(line))

\* lines 283-287 (and 316-320): what is left once the child has exited
stream_remaining(remaining) ==
    IF Truthy(remaining)
    THEN LET shown == SelectSeq(SplitLines(remaining), ShownRemaining)
         IN  [k \in DOMAIN shown |-> IndentedLog(shown[k])]
    ELSE <<>>

Reads(proc) == Len(SelectSeq(proc.io, IsRead))

\* a streaming loop turn: readline(), and read() once poll() is not None
AfterTurn(proc, exited) ==
    [proc EXCEPT !.io = @ \o (IF exited THEN <<Read, Read>> ELSE <<Read>>)]

\* (w.tried is the record of that loop; it is dropped by the step that
\* follows the loop)
\* the loop of install_debtap is done with the candidate w.mgr: what
\* 'which' said of it, whether its install process was started, how that
\* exited (-1: not at all) and what the re-check 'which debtap' said
Tried(w, which, started, rc, verify) ==
    [w EXCEPT !.tried = Append(@, [name |-> package_managers[w.mgr].name,
                                   which |-> which, started |-> started,
                                   rc |-> rc, verify |-> verify])]

\* as install_debtap_continue, had the loop been left at the first failure
install_debtap_continue_break(w, last, evs) ==
    [Emit(w, "diagnose", last, evs) EXCEPT !.proc = NoProc]

\* 'continue' in the loop over package_managers (line 256)
install_debtap_continue(w, last, evs) ==
    IF w.mgr < Len(package_managers)
    THEN [Emit(w, "which_manager", last, evs) EXCEPT !.mgr = @ + 1, !.proc = NoProc]
    ELSE [Emit(w, "diagnose", last, evs) EXCEPT !.proc = NoProc]

\* subprocess.run(['which', 'debtap']) answered which
check_debtap(i, which) ==
    LET w == workers[i]
    IN  /\ w.pc = "check_debtap"
        /\ WorkerStep(i,
             IF which = "found"
             THEN [check_debtap_passed(w, "check_debtap", <<Log(<<"debtap found and ready!">>)>>)
                   EXCEPT !.seen = @ \cup {"debtap_found"}]
             ELSE [Emit(w, "which_manager", "check_debtap",
                        (IF which = "missing"
                         THEN <<Log(<<"debtap not found, attempting auto-install...">>)>>
                         ELSE <<Log(<<"Error checking debtap: ">> \o OSErrorText),
                                Log(<<"Attempting to install debtap...">>)>>)
                        \o <<Log(<<"Auto-installing debtap...">>)>>)
                   EXCEPT !.mgr = 1, !.seen = @ \cup {"install_debtap"}])

\* lines 256-270: the next backend manager is looked up and started
install_debtap(i, which, popen_raises) ==
    LET w == workers[i]
        m == package_managers[w.mgr]
        found == <<Log(<<"Found ">> \o m.name \o <<", installing debtap...">>)>>
        failed == <<Log(<<"Error with ">> \o m.name \o <<": ">> \o OSErrorText)>>
        process == run_sudo_command(w.sudo_password, m.cmd)
    IN  /\ w.pc = "which_manager"
        /\ WorkerStep(i,
             IF which = "missing"
             THEN install_debtap_continue(Tried(w, which, FALSE, -1, "none"),
                        "install_debtap", <<>>)
             ELSE IF which = "raise"
             THEN install_debtap_continue(Tried(w, which, FALSE, -1, "none"),
                        "install_debtap", failed)
             ELSE IF ~process.started
             THEN install_debtap_continue(Tried(w, which, FALSE, -1, "none"),
                        "install_debtap",
                        found \o <<Log(<<"Could not start installation process">>)>>)
             ELSE IF popen_raises
             THEN install_debtap_continue(Tried(w, which, FALSE, -1, "none"),
                        "install_debtap", found \o failed)
             ELSE [Emit(w, "backend_stream", "install_debtap", found)
                   EXCEPT !.proc = process, !.seen = @ \cup {"backend_started"}])

\* lines 290-337: the backend manager has exited with rc; verify is the
\* re-check 'which debtap'; the database update is started next
install_debtap_exited(w, evs, rc, verify, popen_raises) ==
    LET m == package_managers[w.mgr]
        done == evs \o <<Log(<<"debtap installation completed!">>)>>
        update_process == run_sudo_command(w.sudo_password, << <<"debtap">>, <<"-u">> >>)
        t == Tried(w, "found", TRUE, rc, IF rc = 0 THEN verify ELSE "none")
    IN  IF rc # 0
        THEN install_debtap_continue(t, "install_debtap_stream",
                 evs \o <<Log(m.name \o <<" installation failed (exit code: ", ToString(rc), ")">>)>>)
        ELSE IF verify = "raise"
        THEN install_debtap_continue(t, "install_debtap_stream",
                 done \o <<Log(<<"Error with ">> \o m.name \o <<": ">> \o OSErrorText)>>)
        ELSE IF verify = "missing"
        THEN install_debtap_continue(t, "install_debtap_stream",
                 done \o <<Log(<<"Installation completed but debtap still not found">>)>>)
        ELSE IF ~update_process.started
        THEN check_debtap_passed(t, "install_debtap_stream",
                 done \o <<Log(<<"debtap installation verified!">>),
                           Log(<<"Updating debtap database...">>),
                           Log(<<"Could not start database update">>)>>)
        ELSE IF popen_raises
        THEN check_debtap_passed(t, "install_debtap_stream",
                 done \o <<Log(<<"debtap installation verified!">>),
                           Log(<<"Updating debtap database...">>),
                           Log(<<"Database update error: ">> \o OSErrorText)>>)
        ELSE [Emit(t, "update_stream", "install_debtap_stream",
                   done \o <<Log(<<"debtap installation verified!">>),
                             Log(<<"Updating debtap database...">>)>>)
              EXCEPT !.proc = update_process]

\* lines 272-288: one turn of the loop that streams the backend's output
install_debtap_stream(i, line, exited, remaining, rc, verify, popen_raises) ==
    LET w == workers[i]
        p == [w EXCEPT !.proc = AfterTurn(@, exited),
                       !.input = <<line, IF exited THEN remaining ELSE <<>> >>]
    IN  /\ w.pc = "backend_stream"
        /\ exited \/ Reads(w.proc) + 1 < MaxReads
        /\ WorkerStep(i,
             IF exited
             THEN install_debtap_exited(p, stream_line(line) \o stream_remaining(remaining),
                                        rc, verify, popen_raises)
             ELSE Emit(p, "backend_stream", "install_debtap_stream", stream_line(line)))

\* as install_debtap_update, had a database update that exits non-zero been
\* taken for a failed installation
install_debtap_update_fatal(i, line, exited, remaining, rc) ==
    LET w == workers[i]
        p == [w EXCEPT !.proc = AfterTurn(@, exited),
                       !.input = <<line, IF exited THEN remaining ELSE <<>> >>]
        evs == stream_line(line) \o stream_remaining(remaining)
    IN  /\ w.pc = "update_stream"
        /\ exited \/ Reads(w.proc) + 1 < MaxReads
        /\ WorkerStep(i,
             IF exited /\ rc = 0
             THEN check_debtap_passed(p, "install_debtap_update",
                      evs \o <<Log(<<"debtap database updated successfully!">>)>>)
             ELSE IF exited
             THEN check_debtap_failed(p, "install_debtap_update",
                      evs \o <<Log(<<"Database update failed">>)>>)
             ELSE Emit(p, "update_stream", "install_debtap_update", stream_line(line)))

\* lines 307-331: one turn of the loop that streams 'debtap -u'
install_debtap_update(i, line, exited, remaining, rc) ==
    LET w == workers[i]
        p == [w EXCEPT !.proc = AfterTurn(@, exited),
                       !.input = <<line, IF exited THEN remaining ELSE <<>> >>]
    IN  /\ w.pc = "update_stream"
        /\ exited \/ Reads(w.proc) + 1 < MaxReads
        /\ WorkerStep(i,
             IF exited
             THEN check_debtap_passed(p, "install_debtap_update",
                      stream_line(line) \o stream_remaining(remaining)
                      \o (IF rc = 0
                          THEN <<Log(<<"debtap database updated successfully!">>)>>
                          ELSE <<Log(<<"Database update had issues, but debtap is installed">>),
                                 Log(<<"You can update manually later with: sudo debtap -u">>)>>))
             ELSE Emit(p, "update_stream", "install_debtap_update", stream_line(line)))

\* as AvailabilityLine, had the manager's name been left out of the line
AvailabilityLine_nameless(m, present) ==
    Log(<<"   ">> \o (IF present THEN <<"available">> ELSE <<"not found">>))

\* lines 350-355: the line of the diagnostic for one manager
AvailabilityLine(m, present) ==
    Log(<<"   ">> \o m.name \o (IF present THEN <<" - available">> ELSE <<" - not found">>))

\* lines 343-357: every manager failed; present: the managers 'which' finds
install_debtap_report(i, present) ==
    LET w == [workers[i] EXCEPT !.tried = <<>>]
    IN  /\ w.pc = "diagnose"
        /\ WorkerStep(i,
             check_debtap_failed(w, "install_debtap_report",
                 <<Log(<<"Auto-installation failed with all package managers">>),
                   Log(<<"Please install debtap manually:">>),
                   Log(<<"   yay -S debtap">>),
                   Log(<<"   sudo debtap -u">>),
                   Log(<<>>),
                   Log(<<"Available package managers checked:">>)>>
                 \o [k \in 1..Len(package_managers) |->
                        AvailabilityLine(package_managers[k], k \in present)]))

(***************************************************************************)
(* InstallWorker.convert_deb_package                                       *)
(***************************************************************************)
STR_pkg_zst == <<".", "p", "k", "g", ".", "t", "a", "r", ".", "z", "s", "t">>

STR_pkg_xz == <<".", "p", "k", "g", ".", "t", "a", "r", ".", "x", "z">>

STR_noise == <<"=", "=", ">">>

PkgZst == <<"a", ".", "p", "k", "g", ".", "t", "a", "r", ".", "z", "s", "t">>

PkgXz == <<"b", ".", "p", "k", "g", ".", "t", "a", "r", ".", "x", "z">>

NotesTxt == <<"n", "o", "t", "e", "s", ".", "t", "x", "t">>

\* os.listdir(self.temp_dir) once debtap has run on the copied deb
ConvertListings(deb) ==
    {<<deb>>, <<deb, PkgZst>>, <<PkgXz, deb, PkgZst>>, <<NotesTxt, deb>>}

ConvertStdouts ==
    {<<>>, <<"=", "=", ">", " ", "E", "x", "t", "r", "a", "c", "t", "i", "n", "g", "\n", "d", "o", "n", "e", "\n">>}

\* what debtap can do: Popen raises, the 300 s timeout expires, or it exits
ConvertOutcomes(deb) ==
    {[kind |-> "raise", rc |-> 0, stdout |-> <<>>, listing |-> <<deb>>]}
    \cup {[kind |-> "timeout", rc |-> 0, stdout |-> <<>>, listing |-> l] :
            l \in {<<deb>>, <<NotesTxt, deb>>}}
    \cup {[kind |-> "exit", rc |-> rc, stdout |-> s, listing |-> l] :
            rc \in {0, 1}, s \in ConvertStdouts, l \in ConvertListings(deb)}

\* file.endswith('.pkg.tar.zst') or file.endswith('.pkg.tar.xz')
\* as IsPkgFile, had only the .pkg.tar.zst suffix been looked for
IsPkgFile_zst_only(file) == EndsWith(file, STR_pkg_zst)

IsPkgFile(file) == EndsWith(file, STR_pkg_zst) \/ EndsWith(file, STR_pkg_xz)

ShownConvertLine(line) == Truthy(Strip(line)) /\ ~StartsWith(Strip(line), STR_noise)

StrippedLog(line) == Log(Strip(line))

\* lines 395-398
convert_output(stdout) ==
    LET shown == SelectSeq(SplitLines(stdout), ShownConvertLine)
    IN  [k \in DOMAIN shown |-> StrippedLog(shown[k])]

FileLog(file) == Log(<<"  - ">> \o file)

\* as convert_timed_out, had process.kill() been left out
convert_timed_out_no_kill(head, o) ==
    [arch |-> NoneVal, cwd |-> "temp_dir", listing |-> o.listing, killed |-> FALSE,
     evs |-> head \o <<Log(<<"Conversion timed out after 5 minutes">>)>>]

\* lines 400-403: except subprocess.TimeoutExpired
convert_timed_out(head, o) ==
    [arch |-> NoneVal, cwd |-> "temp_dir", listing |-> o.listing, killed |-> TRUE,
     evs |-> head \o <<Log(<<"Conversion timed out after 5 minutes">>)>>]

\* as convert_no_package, had the listing for debugging been left out
convert_no_package_unlisted(head, o) ==
    [arch |-> NoneVal, cwd |-> "original", listing |-> o.listing, killed |-> FALSE,
     evs |-> head \o convert_output(o.stdout)
             \o <<Log(<<"No package file generated">>)>>]

\* lines 417-423: if not pkg_files
convert_no_package(head, o) ==
    [arch |-> NoneVal, cwd |-> "original", listing |-> o.listing, killed |-> FALSE,
     evs |-> head \o convert_output(o.stdout)
             \o <<Log(<<"No package file generated">>),
                  Log(<<"Files in temp directory:">>)>>
             \o [k \in DOMAIN o.listing |-> FileLog(o.listing[k])]]

\* lines 359-433: what convert_deb_package returns (arch: a path or None),
\* emits, and leaves behind
convert_deb_package_result(w, temp_deb_path, o) ==
    LET deb_filename == Basename(temp_deb_path)
        package_name == SplitFirst(deb_filename, "_")
        head == <<Log(<<"Detected package name: ">> \o package_name)>>
        pkg_files == SelectSeq(o.listing, IsPkgFile)
    IN  IF o.kind = "raise"
        THEN [arch |-> NoneVal, cwd |-> "temp_dir", listing |-> w.listing,
              killed |-> FALSE,
              evs |-> head \o <<Log(<<"Exception during conversion: ">> \o OSErrorText)>>]
        ELSE IF o.kind = "timeout"
        THEN convert_timed_out(head, o)
        ELSE IF o.rc # 0
        THEN [arch |-> NoneVal, cwd |-> "original", listing |-> o.listing,
              killed |-> FALSE,
              evs |-> head \o convert_output(o.stdout)
                      \o <<Log(<<"debtap failed with return code: ", ToString(o.rc)>>)>>]
        ELSE IF pkg_files = <<>>
        THEN convert_no_package(head, o)
        ELSE [arch |-> Join(w.temp_dir, pkg_files[1]), cwd |-> "original",
              listing |-> o.listing, killed |-> FALSE,
              evs |-> head \o convert_output(o.stdout)
                      \o <<Log(<<"Found generated package: ">> \o pkg_files[1])>>]

\* lines 147-171: debtap has answered o; os.path.getsize(arch_package) may raise
convert_deb_package(i, o, raises) ==
    LET w == workers[i]
        r == convert_deb_package_result(w, Join(w.temp_dir, Basename(w.deb_file_path)), o)
        c == [w EXCEPT !.cwd = r.cwd, !.listing = r.listing,
                       !.seen = @ \cup {"convert_deb_package"}
                                  \cup (IF o.kind = "exit" /\ o.rc = 0
                                        THEN {"convert_exit_0"} ELSE {})
                                  \cup (IF Truthy(r.arch)
                                        THEN {"artifact_found"} ELSE {})
                                  \cup (IF o.kind = "timeout"
                                        THEN {"convert_timeout"} ELSE {})
                                  \cup (IF r.killed
                                        THEN {"convert_killed"} ELSE {})]
    IN  /\ w.pc = "convert"
        /\ o \in ConvertOutcomes(Basename(w.deb_file_path))
        /\ WorkerStep(i,
             IF ~Truthy(r.arch) THEN run_convert_failed(c, r.evs)
             ELSE IF raises THEN run_except(c, "convert_deb_package", r.evs, OSErrorText)
             ELSE run_converted(c, r.evs, r.arch))

(***************************************************************************)
(* InstallWorker.install_arch_package                                      *)
(***************************************************************************)
ProceedLine == <<":", ":", " ", "P", "r", "o", "c", "e", "e", "d", " ", "w", "i", "t", "h", " ", "i", "n", "s", "t", "a", "l", "l", "a", "t", "i", "o", "n", "?", " ", "[", "Y", "/", "n", "]", "\n">>

InstallingPkgLine == <<"i", "n", "s", "t", "a", "l", "l", "i", "n", "g", " ", "a", "\n">>

DependencyLine == <<"e", "r", "r", "o", "r", ":", " ", "u", "n", "r", "e", "s", "o", "l", "v", "e", "d", " ", "D", "e", "p", "e", "n", "d", "e", "n", "c", "y", "\n">>

FailedLines == <<"e", "r", "r", "o", "r", ":", " ", "f", "a", "i", "l", "e", "d", "\n">>

\* what pacman under sudo can print
InstallLines == {<<>>, InstallingPkgLine, ProceedLine, DependencyLine}

ConflictLines == <<"e", "r", "r", "o", "r", ":", " ", "c", "o", "n", "f", "l", "i", "c", "t", "i", "n", "g", " ", "f", "i", "l", "e", "s", "\n", "D", "e", "p", "e", "n", "d", "e", "n", "c", "y", ":", " ", "f", "o", "o", " ", "m", "i", "s", "s", "i", "n", "g", "\n">>

InstallRemaining == {<<>>, FailedLines, ProceedLine, ConflictLines}

\* lines 459-465
prompt_phrases ==
    {<<"p", "r", "o", "c", "e", "e", "d", " ", "w", "i", "t", "h", " ", "i", "n", "s", "t", "a", "l", "l", "a", "t", "i", "o", "n">>,
     <<"c", "o", "n", "t", "i", "n", "u", "e", "?">>,
     <<"[", "y", "/", "n", "]">>,
     <<"r", "e", "p", "l", "a", "c", "e">>,
     <<"c", "o", "n", "f", "l", "i", "c", "t">>}

\* as IsPrompt, had the line not been lowered
IsPrompt_exact(line) == \E phrase \in prompt_phrases : Contains(phrase, line)

IsPrompt(line) == \E phrase \in prompt_phrases : Contains(phrase, Lower(line))

STR_conflicting_files == <<"c", "o", "n", "f", "l", "i", "c", "t", "i", "n", "g", " ", "f", "i", "l", "e", "s">>

STR_dependency == <<"d", "e", "p", "e", "n", "d", "e", "n", "c", "y">>

STR_signature == <<"s", "i", "g", "n", "a", "t", "u", "r", "e">>

STR_disk_space == <<"d", "i", "s", "k", " ", "s", "p", "a", "c", "e">>

STR_no_space == <<"n", "o", " ", "s", "p", "a", "c", "e">>

\* '\n'.join(lines)
RECURSIVE JoinLines(_)
JoinLines(lines) ==
    IF lines = <<>> THEN <<>>
    ELSE IF Len(lines) = 1 THEN lines[1]
    ELSE lines[1] \o <<"\n">> \o JoinLines(Tail(lines))

\* lines 494-502: the tip for a failed install
install_tip(output_lines) ==
    LET output_text == Lower(JoinLines(output_lines))
    IN  IF Contains(STR_conflicting_files, output_text)
        THEN <<Log(<<"Tip: Package conflicts with existing files">>)>>
        ELSE IF Contains(STR_dependency, output_text)
        THEN <<Log(<<"Tip: Missing dependencies - try installing them first">>)>>
        ELSE IF Contains(STR_signature, output_text)
        THEN <<Log(<<"Tip: Signature issues - package might be corrupted">>)>>
        ELSE IF Contains(STR_disk_space, output_text) \/ Contains(STR_no_space, output_text)
        THEN <<Log(<<"Tip: Insufficient disk space">>)>>
        ELSE <<>>

\* lines 437-447: pacman is started under sudo
install_arch_package(i, popen_raises) ==
    LET w == workers[i]
        cmd == << <<"pacman">>, <<"-U">>, <<"--noconfirm">>, <<"--needed">>, w.arch_package >>
        head == <<Log(<<"Running: sudo pacman -U --noconfirm --needed ">> \o w.arch_package)>>
        process == run_sudo_command(w.sudo_password, cmd)
        c == [w EXCEPT !.seen = @ \cup {"install_arch_package"}]
    IN  /\ w.pc = "install"
        /\ WorkerStep(i,
             IF ~process.started
             THEN run_install_failed(c, head \o <<Log(<<"Could not start installation process">>)>>)
             ELSE IF popen_raises
             THEN run_install_failed(c, head \o <<Log(<<"Exception during installation: ">> \o OSErrorText)>>)
             ELSE [Emit(c, "install_stream", "install_arch_package", head)
                   EXCEPT !.proc = process, !.output_lines = <<>>,
                          !.seen = @ \cup {"install_started"}])

ShownInstallLine(line) == Truthy(Strip(line))

PlainLog(line) == Log(RStrip(line))

\* lines 451-508: one turn of the loop that streams pacman's output;
\* write_raises: the child is gone and writing 'y' to its input raised
install_arch_package_stream(i, line, exited, remaining, rc, write_raises) ==
    LET w == workers[i]
        text == RStrip(line)
        asked == Truthy(line) /\ IsPrompt(text)
        answered == asked /\ ~write_raises
        rest == IF Truthy(remaining) THEN SelectSeq(SplitLines(remaining), ShownInstallLine)
                ELSE <<>>
        evs == (IF Truthy(line) THEN <<Log(text)>> ELSE <<>>)
               \o (IF answered THEN <<Log(<<"Automatically answered 'y'">>)>> ELSE <<>>)
        lines == w.output_lines \o (IF Truthy(line) THEN <<text>> ELSE <<>>)
        io == w.proc.io \o <<Read>>
              \o (IF answered THEN <<Write(<<"y", "\n">>)>> ELSE <<>>)
        p == [w EXCEPT !.proc.io = io, !.output_lines = lines,
                       !.input = <<line, <<>> >>]
        q == [w EXCEPT !.proc.io = io \o <<Read>>, !.output_lines = lines \o rest,
                       !.input = <<line, remaining>>,
                       !.seen = @ \cup {"install_drained"}]
    IN  /\ w.pc = "install_stream"
        /\ exited \/ Reads(w.proc) + 1 < MaxReads
        /\ write_raises => (exited /\ asked)
        /\ WorkerStep(i,
             IF ~exited
             THEN Emit(p, "install_stream", "install_arch_package_stream", evs)
             ELSE IF rc = 0
             THEN run_installed([q EXCEPT !.seen = @ \cup {"install_exit_0"}],
                      evs \o [k \in DOMAIN rest |-> PlainLog(rest[k])]
                      \o <<Log(<<"Package installed successfully!">>)>>)
             ELSE run_install_failed(q,
                      evs \o [k \in DOMAIN rest |-> PlainLog(rest[k])]
                      \o <<Log(<<"Installation failed with return code: ", ToString(rc)>>)>>
                      \o install_tip(lines \o rest)))

(***************************************************************************)
(* DebInstallerGUI.installation_finished                                   *)
(***************************************************************************)
\* the queued finished(success, message) of worker i reaches its slot
installation_finished(i) ==
    LET w == workers[i]
    IN  /\ Dispatching
        /\ w.delivered < Len(w.finished)
        /\ workers' = [workers EXCEPT ![i].delivered = @ + 1]
        /\ stack' = Append(stack, Frame("installation_finished",
                                        IF w.finished[w.delivered + 1].n = 1
                                        THEN "Success" ELSE "Error",
                                        "quit"))
        /\ UNCHANGED <<deb_file_path, sudo_password, select_btn, timers, quit,
                       validated, attempt, prompts, clicks>>

Next ==
    \/ get_sudo_password
    \/ \E c \in Candidates, o \in ProbeOutcomes : get_sudo_password_accepted(c, o)
    \/ get_sudo_password_rejected
    \/ message_box_closed
    \/ select_file
    \/ select_btn_clicked
    \/ \E f \in FileDialogResults : select_file_result(f)
    \/ confirm_and_install
    \/ \E yes \in BOOLEAN : confirm_and_install_reply(yes)

Spec == Init /\ [][Next]_vars

(***************************************************************************)
(* The run of one InstallWorker, from start_installation on.               *)
(***************************************************************************)
\* the GUI right after start_installation: with a validated password in the
\* 'Open with' flow, or with none when the select button was clicked and
\* the file confirmed before the password dialog came up
InitRun ==
    /\ deb_file_path = DebA
    /\ sudo_password \in {PwRight, NoneVal}
    /\ select_btn = IF sudo_password = NoneVal THEN "hidden" ELSE "absent"
    /\ timers = IF sudo_password = NoneVal
                THEN singleShot(NoTimers, "get_sudo_password") ELSE NoTimers
    /\ stack = <<>>
    /\ quit = FALSE
    /\ workers = <<NewWorker(deb_file_path, sudo_password)>>
    /\ validated = IF sudo_password = NoneVal THEN {} ELSE {sudo_password}
    /\ attempt = IF sudo_password = NoneVal THEN NoAttempt
                ELSE Probed(Attempt(sudo_password, 2, "validated"),
                            [raise |-> FALSE, rc |-> 0, stderr |-> <<>>,
                             rc2 |-> 0, stdout2 |-> WhoamiRoot])
    /\ prompts = IF sudo_password = NoneVal THEN 0 ELSE 1
    /\ clicks = IF sudo_password = NoneVal THEN 1 ELSE 0

NextRun ==
    \/ \E i \in DOMAIN workers, bytes \in FileSizes, raises \in BOOLEAN : run(i, bytes, raises)
    \/ \E i \in DOMAIN workers, which \in WhichResults : check_debtap(i, which)
    \/ \E i \in DOMAIN workers, which \in WhichResults, raises \in BOOLEAN :
            install_debtap(i, which, raises)
    \/ \E i \in DOMAIN workers, line \in BackendLines, exited \in BOOLEAN,
           remaining \in BackendRemaining, rc \in {0, 1}, verify \in WhichResults,
           raises \in BOOLEAN :
            install_debtap_stream(i, line, exited, remaining, rc, verify, raises)
    \/ \E i \in DOMAIN workers, line \in BackendLines, exited \in BOOLEAN,
           remaining \in BackendRemaining, rc \in {0, 1} :
            install_debtap_update(i, line, exited, remaining, rc)
    \/ \E i \in DOMAIN workers, present \in SUBSET (1..Len(package_managers)) :
            install_debtap_report(i, present)
    \/ \E i \in DOMAIN workers, raises \in BOOLEAN : prepare_workspace(i, raises)
    \/ \E i \in DOMAIN workers, raises \in BOOLEAN : copy_input(i, raises)
    \/ \E i \in DOMAIN workers, raises \in BOOLEAN :
            \E o \in ConvertOutcomes(Basename(workers[i].deb_file_path)) :
                convert_deb_package(i, o, raises)
    \/ \E i \in DOMAIN workers, raises \in BOOLEAN : install_arch_package(i, raises)
    \/ \E i \in DOMAIN workers, line \in InstallLines, exited \in BOOLEAN,
           remaining \in InstallRemaining, rc \in {0, 1}, write_raises \in BOOLEAN :
            install_arch_package_stream(i, line, exited, remaining, rc, write_raises)
    \/ \E i \in DOMAIN workers : cleanup(i)
    \/ \E i \in DOMAIN workers : installation_finished(i)
    \/ message_box_closed

SpecRun == InitRun /\ [][NextRun]_vars

(***************************************************************************)
(* Properties.                                                             *)
(***************************************************************************)
Last(seq) == seq[Len(seq)]

OnlyWhitespace(c) == \A k \in 1..Len(c) : IsSpace(c[k])

C2_OneTerminalResult ==
    \A i \in DOMAIN workers :
        LET w == workers[i]
        IN  /\ Len(w.finished) <= 1
            /\ w.pc \in {"finally", "done"} <=> Len(w.finished) = 1

\* the top-level exception handler (mkdtemp raised) has reported
C2_Witness ==
    \E i \in DOMAIN workers :
        /\ workers[i].pc = "done"
        /\ "debtap_found" \in workers[i].seen
        /\ "convert_deb_package" \notin workers[i].seen
        /\ ~Truthy(workers[i].temp_dir)
        /\ Len(workers[i].finished) = 1

\* C3: when check_debtap fails no working directory is made and neither
\* convert_deb_package nor install_arch_package is called; when the
\* conversion fails install_arch_package is not called; either way the
\* result is a failure and progress 100 is never emitted.
C3_ShortCircuit ==
    \A i \in DOMAIN workers :
        LET w == workers[i]
            failure == /\ Len(w.finished) = 1
                       /\ w.finished[1].n = 0
                       /\ \A k \in 1..Len(w.progress) : w.progress[k] # 100
        IN  /\ "check_debtap_failed" \in w.seen
                => /\ ~Truthy(w.temp_dir)
                   /\ ~w.dir_exists
                   /\ "convert_deb_package" \notin w.seen
                   /\ "install_arch_package" \notin w.seen
                   /\ failure
            /\ "convert_failed" \in w.seen
                => /\ "install_arch_package" \notin w.seen
                   /\ failure

\* a run whose converter could not be installed has ended
C3_Witness ==
    \E i \in DOMAIN workers :
        /\ workers[i].pc = "done"
        /\ "check_debtap_failed" \in workers[i].seen

\* C4: every installation run is started with a credential that has passed
\* both validation stages.
C4_StartsOnlyValidated ==
    \A i \in DOMAIN workers : workers[i].sudo_password \in validated

\* C5: start_installation is executed at most once in a process lifetime.
C5_AtMostOneRun == Len(workers) <= 1

\* C6: a child started by run_sudo_command gets the credential as the first
\* thing written to its input, before any read of its output, and never
\* again; the credential is in no emitted event and in no argument.
C6_CredentialOnlyOnStdin ==
    \A i \in DOMAIN workers :
        LET w == workers[i]
            pw == w.sudo_password
        IN  /\ (w.proc.started /\ w.proc.sudo)
                => /\ Len(w.proc.io) >= 1
                   /\ w.proc.io[1] = Write(pw \o <<"\n">>)
                   /\ \A k \in 2..Len(w.proc.io) :
                        ~(IsWrite(w.proc.io[k]) /\ Contains(pw, w.proc.io[k].text))
            /\ Truthy(pw)
                => /\ \A k \in 1..Len(w.out) : ~Contains(pw, w.out[k].text)
                   /\ \A k \in 1..Len(w.proc.argv) : ~Contains(pw, w.proc.argv[k])

\* pacman under sudo was answered 'y' after its output had been read
C6_Witness ==
    \E i \in DOMAIN workers :
        /\ workers[i].pc = "install_stream"
        /\ workers[i].proc.sudo
        /\ Len(workers[i].proc.io) = 3
        /\ IsRead(workers[i].proc.io[2])
        /\ IsWrite(workers[i].proc.io[3])

\* C7: the streaming of a backend install (and of the database update)
\* emits no log line that contains "password" in any letter case, in the
\* line-by-line loop and in the drain after the child's exit.
C7_NoPasswordLine ==
    \A i \in DOMAIN workers :
        LET w == workers[i]
        IN  w.last \in {"install_debtap_stream", "install_debtap_update"}
                => \A k \in 1..Len(w.out) :
                      IsLog(w.out[k]) => ~Contains(STR_password, Lower(w.out[k].text))

\* the backend printed 'Password:' and left 'PASSWORD cached' to drain
C7_Witness ==
    \E i \in DOMAIN workers :
        /\ workers[i].last = "install_debtap_stream"
        /\ workers[i].input[1] = PasswordLine
        /\ Truthy(workers[i].input[2])
        /\ Len(workers[i].out) > 1

\* C8: converter present, conversion exits 0 leaving a package file, install
\* exits 0: the result is (True, message with "Total time") and the last
\* progress value is 100.
C8_SuccessResult ==
    \A i \in DOMAIN workers :
        LET w == workers[i]
        IN  {"debtap_found", "convert_exit_0", "artifact_found", "install_exit_0"} \subseteq w.seen
                => /\ Len(w.finished) = 1
                   /\ w.finished[1].n = 1
                   /\ Contains(<<"Total time">>, w.finished[1].text)
                   /\ w.progress # <<>>
                   /\ Last(w.progress) = 100

C8_Witness ==
    \E i \in DOMAIN workers :
        /\ workers[i].pc = "done"
        /\ {"debtap_found", "convert_exit_0", "artifact_found", "install_exit_0"}
                \subseteq workers[i].seen

\* C9: the progress values of a run never decrease and lie in 0..100.
C9_ProgressMonotone ==
    \A i \in DOMAIN workers :
        LET progress == workers[i].progress
        IN  \A k \in 1..Len(progress) :
                /\ progress[k] \in 0..100
                /\ k > 1 => progress[k - 1] <= progress[k]

C9_Witness ==
    \E i \in DOMAIN workers : workers[i].progress = <<5, 10, 15, 20, 70, 75, 100>>

\* C10: a blank or whitespace-only candidate fails validation with no sudo
\* probe started, and get_sudo_password is scheduled again.
C10_BlankCandidateRejected ==
    (attempt.result # "none" /\ OnlyWhitespace(attempt.candidate))
        => /\ attempt.probes = 0
           /\ attempt.result = "blank"
           /\ attempt.candidate \notin validated
           /\ \/ \E k \in 1..Len(stack) :
                    stack[k] = Frame("get_sudo_password", "Invalid Password", "reprompt")
              \/ timers.get_sudo_password > 0

\* a candidate of a space and a tab was rejected and the prompt rescheduled
C10_Witness ==
    /\ attempt.candidate = <<" ", "\t">>
    /\ attempt.result = "blank"
    /\ timers.get_sudo_password = 1

FailedResults == {"blank", "error", "refresh_failed", "identity_failed"}

\* C11: validation succeeds (the flow goes on to the file selection or the
\* confirmation) exactly when 'sudo -S -v' exits 0 and 'sudo -S whoami'
\* exits 0 printing "root"; whoami is run only after -v has exited 0.
C11_ValidatedIffBothProbes ==
    /\ validated # {} <=> attempt.result = "validated"
    /\ attempt.result \notin {"none", "blank"}
        => LET o == attempt.outcome
           IN  /\ attempt.result = "validated"
                    <=> /\ ~o.raise
                        /\ o.rc = 0
                        /\ o.rc2 = 0
                        /\ \E k \in 1..Len(o.stdout2) - 3 :
                              SubSeq(o.stdout2, k, k + 3) = <<"r", "o", "o", "t">>
               /\ attempt.probes = 2 => (~o.raise /\ o.rc = 0)
               /\ attempt.result = "validated" => attempt.candidate \in validated

\* whoami exited 0 under sudo but did not print root: not validated
C11_Witness ==
    /\ attempt.result = "identity_failed"
    /\ attempt.outcome.rc2 = 0
    /\ attempt.outcome.stdout2 = WhoamiUser

\* C12: a failed 'sudo -S -v' whose error text contains "not in the sudoers
\* file" (any case) ends the application with no further prompt scheduled;
\* every other failure of the probe schedules a new prompt.
C12_UnauthorizedIsFatal ==
    attempt.result = "refresh_failed"
        => IF Contains(STR_not_in_sudoers, Lower(attempt.outcome.stderr))
           THEN /\ timers.get_sudo_password = 0
                /\ \/ quit
                   \/ \E k \in 1..Len(stack) :
                        stack[k].h = "get_sudo_password" /\ stack[k].then = "quit"
           ELSE \/ timers.get_sudo_password > 0
                \/ \E k \in 1..Len(stack) :
                     stack[k].h = "get_sudo_password" /\ stack[k].then = "reprompt"

\* C13: every failed validation is followed by another prompt, however many
\* have failed before, and as long as no credential has been validated the
\* application quits only from the 'Permission Denied' box or from the
\* 'Access Required' box of a cancelled password dialog.
C13_NoRetryLimit ==
    [][/\ (stack # <<>> /\ Top.h = "get_sudo_password" /\ Top.then = "reprompt"
              /\ stack' = Pop)
          => timers'.get_sudo_password = timers.get_sudo_password + 1
       /\ (validated = {} /\ ~quit /\ quit')
          => (stack # <<>> /\ Top.at \in {"Permission Denied", "Access Required"})]_vars

\* C14: after a failed validation DebInstallerGUI.sudo_password no longer
\* holds the rejected candidate.
C14_RejectedCandidateDiscarded ==
    attempt.result \in FailedResults => sudo_password # attempt.candidate

\* C15: when the converter has not exited within the timeout,
\* convert_deb_package kills it, logs that the conversion timed out and
\* returns no artifact; the run ends in a failure and install_arch_package
\* is not called.
C15_ConversionTimeout ==
    \A i \in DOMAIN workers :
        LET w == workers[i]
        IN  "convert_timeout" \in w.seen
                => /\ "convert_killed" \in w.seen
                   /\ "artifact_found" \notin w.seen
                   /\ ~Truthy(w.arch_package)
                   /\ "install_arch_package" \notin w.seen
                   /\ Len(w.finished) = 1
                   /\ w.finished[1].n = 0
                   /\ w.last = "convert_deb_package"
                        => \E k \in 1..Len(w.out) :
                              w.out[k] = Log(<<"Conversion timed out after 5 minutes">>)

\* a run whose conversion timed out has ended
C15_Witness ==
    \E i \in DOMAIN workers :
        /\ workers[i].pc = "done"
        /\ "convert_timeout" \in workers[i].seen

C16_IsEntryLog(e) == IsLog(e) /\ e.text # <<>> /\ e.text[1] = "  - "

\* C16: when the converter exits 0 and no file of the working directory ends
\* in .pkg.tar.zst or .pkg.tar.xz, the conversion is reported failed and one
\* log line per directory entry is emitted.
C16_NoArtifactListsDirectory ==
    \A i \in DOMAIN workers :
        LET w == workers[i]
            suffixed(file, suf) ==
                /\ Len(file) >= Len(suf)
                /\ SubSeq(file, Len(file) - Len(suf) + 1, Len(file)) = suf
            unmatched == \A k \in 1..Len(w.listing) :
                            /\ ~suffixed(w.listing[k], STR_pkg_zst)
                            /\ ~suffixed(w.listing[k], STR_pkg_xz)
        IN  (w.last = "convert_deb_package" /\ "convert_exit_0" \in w.seen /\ unmatched)
                => /\ "convert_failed" \in w.seen
                   /\ Len(w.finished) = 1
                   /\ w.finished[1].n = 0
                   /\ SelectSeq(w.out, C16_IsEntryLog)
                        = [k \in 1..Len(w.listing) |-> Log(<<"  - ">> \o w.listing[k])]

\* debtap exited 0 leaving only notes.txt beside the copied .deb
C16_Witness ==
    \E i \in DOMAIN workers :
        /\ workers[i].last = "convert_deb_package"
        /\ "convert_exit_0" \in workers[i].seen
        /\ Len(workers[i].listing) = 2
        /\ workers[i].listing[1] = NotesTxt

C17_Asks(line) == \E phrase \in prompt_phrases : Contains(phrase, Lower(line))

C17_IsAnswerLog(e) == e = Log(<<"Automatically answered 'y'">>)

C17_IsAnswer(x) == x = Write(<<"y", "\n">>)

\* the turn of the streaming loop that has just run, the child not having
\* exited: the line it read is answered with one 'y' if it asks, not otherwise
C17_TurnAnswered(w) ==
    LET io == w.proc.io
        n == Len(io)
    IN  /\ \A k \in 2..n : IsWrite(io[k]) => (C17_IsAnswer(io[k]) /\ IsRead(io[k - 1]))
        /\ w.last = "install_arch_package_stream"
            => IF Truthy(w.input[1]) /\ C17_Asks(w.input[1])
               THEN /\ n >= 2
                    /\ C17_IsAnswer(io[n])
                    /\ IsRead(io[n - 1])
                    /\ Len(SelectSeq(w.out, C17_IsAnswerLog)) = 1
               ELSE /\ IsRead(io[n])
                    /\ SelectSeq(w.out, C17_IsAnswerLog) = <<>>

\* pacman has exited and its output was drained in the turn that has just run
C17_Drained(w) ==
    /\ "install_drained" \in w.seen
    /\ w.last = "install_arch_package"
    /\ w.pc = "finally"

\* C17 as claimed: every line read from the install child that holds a
\* confirmation phrase is answered with exactly one 'y' before more output
\* is read, and no other line is answered.
C17_EveryPromptAnswered ==
    \A i \in DOMAIN workers :
        LET w == workers[i]
            drained == IF Truthy(w.input[2]) THEN SplitLines(w.input[2]) ELSE <<>>
            asking == (IF Truthy(w.input[1]) /\ C17_Asks(w.input[1]) THEN 1 ELSE 0)
                      + Len(SelectSeq(drained, C17_Asks))
        IN  /\ C17_TurnAnswered(w)
            /\ C17_Drained(w) => Len(SelectSeq(w.out, C17_IsAnswerLog)) = asking

\* C17 amended: while pacman is running, every line readline() returns that
\* holds a confirmation phrase is answered with exactly one 'y' before the
\* next read and no other line is answered; once pacman has exited the line
\* read last gets at most one answer and the drained lines get none.
C17_PromptAnsweredWhileRunning ==
    \A i \in DOMAIN workers :
        LET w == workers[i]
        IN  /\ C17_TurnAnswered(w)
            /\ C17_Drained(w)
                => Len(SelectSeq(w.out, C17_IsAnswerLog))
                     <= (IF Truthy(w.input[1]) /\ C17_Asks(w.input[1]) THEN 1 ELSE 0)

\* pacman asked 'Proceed with installation? [Y/n]' and was answered
C17_Witness ==
    \E i \in DOMAIN workers :
        /\ workers[i].last = "install_arch_package_stream"
        /\ workers[i].input[1] = ProceedLine
        /\ C17_IsAnswer(workers[i].proc.io[Len(workers[i].proc.io)])

\* C18: whenever pacman exits non-zero and its accumulated output contains
\* "dependency" in any letter case, the missing-dependency tip is reported.
C18_DependencyTip ==
    \A i \in DOMAIN workers :
        LET w == workers[i]
        IN  (/\ C17_Drained(w)
             /\ "install_exit_0" \notin w.seen
             /\ Contains(STR_dependency, Lower(JoinLines(w.output_lines))))
                => \E k \in 1..Len(w.out) :
                      w.out[k] = Log(<<"Tip: Missing dependencies - try installing them first">>)

\* C19 as claimed: for a file of S MB the conversion estimate is
\* max(10, 2*S) and the install estimate is max(5, 0.5*S), both non-negative
\* integers (S = file_size / MiB, so the equations are scaled by MiB).
C19_EstimatesExact ==
    \A i \in DOMAIN workers :
        LET w == workers[i]
        IN  "estimated" \in w.seen
                => /\ w.conversion_time \in Nat
                   /\ w.install_time \in Nat
                   /\ w.conversion_time * MiB
                        = (IF 10 * MiB >= 2 * w.file_size THEN 10 * MiB ELSE 2 * w.file_size)
                   /\ w.install_time * 2 * MiB
                        = (IF 10 * MiB >= w.file_size THEN 10 * MiB ELSE w.file_size)

\* C19 amended: the conversion estimate is max(10, floor(2*S)) and the
\* install estimate is max(5, floor(0.5*S)), both non-negative integers.
C19_EstimatesTruncated ==
    \A i \in DOMAIN workers :
        LET w == workers[i]
            c == w.conversion_time
            t == w.install_time
        IN  "estimated" \in w.seen
                => /\ c \in Nat
                   /\ t \in Nat
                   /\ \/ c >= 10 /\ c * MiB <= 2 * w.file_size /\ 2 * w.file_size < (c + 1) * MiB
                      \/ c = 10 /\ 2 * w.file_size < 10 * MiB
                   /\ \/ t >= 5 /\ t * 2 * MiB <= w.file_size /\ w.file_size < (t + 1) * 2 * MiB
                      \/ t = 5 /\ w.file_size < 10 * MiB

\* a 12.75 MB file: 25 s (of 25.5) to convert, 6 s (of 6.375) to install
C19_Witness ==
    \E i \in DOMAIN workers :
        /\ workers[i].file_size = 13369344
        /\ workers[i].conversion_time = 25
        /\ workers[i].install_time = 6

C20_Installed(e) == e.started /\ e.rc = 0 /\ e.verify = "found"

\* C20: install_debtap goes through yay, paru, pamac in that order; a
\* candidate that 'which' does not find gets no install process; the loop
\* ends at the first candidate whose install exits 0 and whose re-check
\* finds debtap, and no candidate is looked at after it; a candidate that
\* exits 0 but fails the re-check is followed by the next one.
C20_BackendOrder ==
    \A i \in DOMAIN workers :
        LET w == workers[i]
            t == w.tried
            n == Len(t)
            names == << <<"yay">>, <<"paru">>, <<"pamac">> >>
        IN  /\ n <= 3
            /\ \A k \in 1..n :
                  /\ t[k].name = names[k]
                  /\ t[k].which # "found" => (~t[k].started /\ t[k].rc = -1)
                  /\ k < n => ~C20_Installed(t[k])
            /\ w.pc \in {"which_manager", "backend_stream"} => w.mgr = n + 1
            /\ w.pc = "backend_stream"
                  => /\ w.proc.started
                     /\ Len(w.proc.argv) >= 3
                     /\ w.proc.argv[3] = names[n + 1]
            /\ w.pc \in {"which_manager", "diagnose"} => ~w.proc.started
            /\ w.pc = "diagnose" => n = 3
            /\ n > 0
                  => IF C20_Installed(t[n])
                     THEN w.pc \in {"update_stream", "mkdtemp"}
                     ELSE IF n < 3
                     THEN w.pc \in {"which_manager", "backend_stream"}
                     ELSE w.pc = "diagnose"

\* yay was not found, paru exited 0 without debtap appearing, pamac did it
C20_Witness ==
    \E i \in DOMAIN workers :
        LET t == workers[i].tried
        IN  /\ Len(t) = 3
            /\ t[1].which = "missing"
            /\ t[2].rc = 0
            /\ t[2].verify = "missing"
            /\ C20_Installed(t[3])

\* C21: once a backend install has exited 0 and the re-check has found
\* debtap, install_debtap returns True whatever becomes of 'debtap -u' (not
\* started, exited non-zero, raised): as soon as the update is over the
\* worker is at PrepareWorkspace with status "Preparing workspace..." and
\* progress 10, and no result event has been emitted.
C21_RefreshNeverFatal ==
    \A i \in DOMAIN workers :
        LET w == workers[i]
        IN  (/\ w.tried # <<>>
             /\ C20_Installed(Last(w.tried))
             /\ w.pc # "update_stream")
            => /\ w.pc = "mkdtemp"
               /\ w.last \in {"install_debtap_stream", "install_debtap_update"}
               /\ w.finished = <<>>
               /\ "check_debtap_failed" \notin w.seen
               /\ \E k \in 1..(Len(w.out) - 1) :
                     /\ w.out[k] = Status(<<"Preparing workspace...">>)
                     /\ w.out[k + 1] = Percent(10)
               /\ Last(w.progress) = 10

\* paru installed debtap, 'debtap -u' then exited non-zero
C21_Witness ==
    \E i \in DOMAIN workers :
        LET w == workers[i]
        IN  /\ w.pc = "mkdtemp"
            /\ w.tried # <<>>
            /\ C20_Installed(Last(w.tried))
            /\ \E k \in DOMAIN w.out :
                  w.out[k] = Log(<<"Database update had issues, but debtap is installed">>)

\* 'debtap -u' could not be launched (Popen raised) after the install
C21_WitnessRaised ==
    \E i \in DOMAIN workers :
        LET w == workers[i]
        IN  /\ w.pc = "mkdtemp"
            /\ w.tried # <<>>
            /\ C20_Installed(Last(w.tried))
            /\ \E k \in DOMAIN w.out :
                  w.out[k] = Log(<<"Database update error: ">> \o OSErrorText)

C22_IsAvailabilityLine(e, name) ==
    \/ e = Log(<<"   ">> \o name \o <<" - available">>)
    \/ e = Log(<<"   ">> \o name \o <<" - not found">>)

C22_IsIndented(e) == IsLog(e) /\ e.text # <<>> /\ e.text[1] = "   "

\* C22: when none of yay, paru, pamac installed debtap (absent, not
\* started, non-zero exit, failed re-check or exception, in any mix),
\* install_debtap goes to its diagnostic, the run reports failure, and the
\* diagnostic holds exactly one line "<name> - available" or
\* "<name> - not found" for each of the three managers and no other such line.
C22_AllFailedDiagnosed ==
    \A i \in DOMAIN workers :
        LET w == workers[i]
            t == w.tried
            names == {<<"yay">>, <<"paru">>, <<"pamac">>}
            lines == {k \in DOMAIN w.out : \E name \in names : C22_IsAvailabilityLine(w.out[k], name)}
        IN  /\ (Len(t) = 3 /\ \A k \in 1..3 : ~C20_Installed(t[k])) <=> w.pc = "diagnose"
            /\ w.last = "install_debtap_report"
                  => /\ w.pc = "finally"
                     /\ Len(w.finished) = 1
                     /\ w.finished[1].n = 0
                     /\ Last(w.out) = w.finished[1]
                     /\ w.progress = <<5>>
                     /\ \A name \in names :
                           Cardinality({k \in lines : C22_IsAvailabilityLine(w.out[k], name)}) = 1
                     /\ Cardinality(lines) = 3
                     /\ \A k \in lines : \A j \in DOMAIN w.out : j > k /\ C22_IsIndented(w.out[j]) => j \in lines

\* the diagnostic found paru but neither yay nor pamac
C22_Witness ==
    \E i \in DOMAIN workers :
        LET w == workers[i]
        IN  /\ w.last = "install_debtap_report"
            /\ \E k \in DOMAIN w.out : w.out[k] = Log(<<"   ", "yay", " - not found">>)
            /\ \E k \in DOMAIN w.out : w.out[k] = Log(<<"   ", "paru", " - available">>)
            /\ \E k \in DOMAIN w.out : w.out[k] = Log(<<"   ", "pamac", " - not found">>)

\* the events out hold a status message starting with text, directly
\* followed by the progress value n
C23_Announced(out, text, n) ==
    \E k \in 1..(Len(out) - 1) :
        /\ out[k].sig = "progress_update"
        /\ out[k].text # <<>>
        /\ out[k].text[1] = text
        /\ out[k + 1] = Percent(n)

C23_IsPrefix(s, t) == Len(s) <= Len(t) /\ \A k \in 1..Len(s) : s[k] = t[k]

\* the states from EnsureConverter to completion: when the worker is about to
\* do the state's work, its latest events hold the state's status message
\* and progress value
C23_LaterStates(w) ==
    /\ w.pc = "check_debtap" => C23_Announced(w.out, "Checking for debtap...", 5)
    /\ w.pc = "mkdtemp" => C23_Announced(w.out, "Preparing workspace...", 10)
    /\ w.pc = "copy" => C23_Announced(w.out, "Copying package file...", 15)
    /\ w.pc = "convert" => C23_Announced(w.out, "Converting package... (est. ", 20)
    /\ w.pc = "install"
          => /\ C23_Announced(w.out, "Installing package... (", 75)
             /\ \E k \in 2..Len(w.out) :
                   /\ w.out[k] = Percent(70)
                   /\ w.out[k - 1].sig = "time_update"
                   /\ w.out[k + 1].sig = "progress_update"
    /\ (w.finished # <<>> /\ w.finished[1].n = 1 /\ w.pc = "finally")
          => C23_Announced(w.out, "Installation completed!", 100)
    /\ C23_IsPrefix(w.progress, <<5, 10, 15, 20, 70, 75, 100>>)

\* C23 as stated: every state of run(), EstimateAndAnnounce included, emits
\* a status message and a progress value before its work: the events of
\* EstimateAndAnnounce begin with a status message and a progress value.
C23_EveryStateAnnounced ==
    \A i \in DOMAIN workers :
        LET w == workers[i]
        IN  /\ C23_LaterStates(w)
            /\ w.pc = "check_debtap"
                  => /\ w.out[1].sig = "progress_update"
                     /\ w.out[2].sig = "progress_value"

\* C23 as amended: EnsureConverter, PrepareWorkspace, CopyInput, Convert,
\* Install and completion emit a status message directly followed by the
\* progress value 5, 10, 15, 20, 75, 100 before their work; 70 follows the
\* conversion's timing note without a status message of its own; the values
\* emitted by a run are a prefix of 5, 10, 15, 20, 70, 75, 100.
\* EstimateAndAnnounce emits nothing before its work, and its own events
\* (three log lines and the timing estimate) come before the first status.
C23_StatusBeforeWork ==
    \A i \in DOMAIN workers :
        LET w == workers[i]
        IN  /\ C23_LaterStates(w)
            /\ w.pc = "start" => (w.out = <<>> /\ w.progress = <<>>)
            /\ w.pc = "check_debtap"
                  => /\ \A k \in 1..3 : IsLog(w.out[k])
                     /\ w.out[4].sig = "time_update"
                     /\ w.out[5] = Status(<<"Checking for debtap...">>)
                     /\ w.out[6] = Percent(5)

\* a run that got through all states
C23_Witness ==
    \E i \in DOMAIN workers :
        /\ workers[i].pc = "finally"
        /\ workers[i].progress = <<5, 10, 15, 20, 70, 75, 100>>

C24_HasSuffix(file) ==
    \/ EndsWith(file, <<".", "p", "k", "g", ".", "t", "a", "r", ".", "z", "s", "t">>)
    \/ EndsWith(file, <<".", "p", "k", "g", ".", "t", "a", "r", ".", "x", "z">>)

\* C24: when debtap exited 0 and the working directory lists at least one
\* file with a native-package suffix, convert_deb_package returns the path
\* <temp_dir>/<file> of the first such file of the listing; that file ends
\* in .pkg.tar.zst or .pkg.tar.xz and is not the copied input package.
C24_FirstArtifact ==
    \A i \in DOMAIN workers :
        LET w == workers[i]
            hits == {k \in DOMAIN w.listing : C24_HasSuffix(w.listing[k])}
            first == w.listing[SetMin(hits)]
            deb_filename == Basename(w.deb_file_path)
        IN  (/\ w.last = "convert_deb_package"
             /\ "convert_exit_0" \in w.seen
             /\ hits # {})
            => /\ "artifact_found" \in w.seen
               /\ \E k \in DOMAIN w.out : w.out[k] = Log(<<"Found generated package: ">> \o first)
               /\ first # deb_filename
               /\ ~C24_HasSuffix(deb_filename)
               /\ w.pc = "install"
                     => /\ w.arch_package = w.temp_dir \o <<"/">> \o first
                        /\ C24_HasSuffix(w.arch_package)
                        /\ w.arch_package # w.temp_dir \o <<"/">> \o deb_filename

\* the listing is b.pkg.tar.xz, the input, a.pkg.tar.zst: two artifacts,
\* the first of them is returned
C24_Witness ==
    \E i \in DOMAIN workers :
        LET w == workers[i]
        IN  /\ w.pc = "install"
            /\ w.last = "convert_deb_package"
            /\ Len(w.listing) = 3
            /\ C24_HasSuffix(w.listing[1])
            /\ C24_HasSuffix(w.listing[3])
            /\ w.arch_package = w.temp_dir \o <<"/">> \o w.listing[1]

\* C25: finished(success, message) is the last event of a run: the step
\* after it (the finally clause) emits nothing, and when the GUI thread
\* receives the result the working directory has already been removed.
C25_ResultIsLast ==
    \A i \in DOMAIN workers :
        LET w == workers[i]
        IN  /\ (w.finished # <<>> /\ w.last = "run_finally") => w.out = <<>>
            /\ w.delivered > 0 => ~w.dir_exists

\* C26: convert_deb_package leaves the current working directory as it
\* found it, on every exit path: once it has been called, the process is in
\* the directory it was in before, and never in the working directory that
\* the cleanup removes.
C26_CwdRestored ==
    \A i \in DOMAIN workers :
        LET w == workers[i]
        IN  "convert_deb_package" \in w.seen => w.cwd = "original"

C27_Success(w) == \E k \in DOMAIN w.finished : w.finished[k].n = 1

C27_Full(w) == \E k \in DOMAIN w.progress : w.progress[k] = 100

\* C27: finished(True, ...) is emitted only in a run whose 'sudo pacman -U'
\* process was started and exited with status 0; a run without a stored
\* password starts no such process, never reports success and never emits
\* progress 100; progress 100 is emitted exactly in the runs that report
\* success.
C27_SuccessOnlyAfterInstall ==
    \A i \in DOMAIN workers :
        LET w == workers[i]
        IN  /\ C27_Success(w)
                  => /\ {"install_started", "install_exit_0"} \subseteq w.seen
                     /\ Truthy(w.sudo_password)
            /\ "install_exit_0" \in w.seen => "install_started" \in w.seen
            /\ ~Truthy(w.sudo_password)
                  => /\ "install_started" \notin w.seen
                     /\ w.pc # "install_stream"
                     /\ ~C27_Success(w)
                     /\ ~C27_Full(w)
            /\ C27_Full(w) <=> C27_Success(w)

\* a run without a stored password got as far as install_arch_package and
\* reported failure
C27_Witness ==
    \E i \in DOMAIN workers :
        LET w == workers[i]
        IN  /\ ~Truthy(w.sudo_password)
            /\ "install_arch_package" \in w.seen
            /\ Len(w.finished) = 1
            /\ w.finished[1].n = 0
            /\ w.progress = <<5, 10, 15, 20, 70, 75>>

\* a run with a stored password whose pacman exited 0
C27_WitnessSuccess ==
    \E i \in DOMAIN workers :
        LET w == workers[i]
        IN  /\ Truthy(w.sudo_password)
            /\ "install_exit_0" \in w.seen
            /\ C27_Success(w)
            /\ C27_Full(w)

\* C28: every run eventually emits its result and completes the cleanup
\* (given that the install and update children exit; the conversion ends at
\* its timeout). Stated in the form a finite run decides: no worker thread
\* takes a step once the application has quit, so by then every run that
\* was started has emitted its result and is through its finally clause.
C28_EveryRunCompletes ==
    quit => \A i \in DOMAIN workers :
                /\ workers[i].finished # <<>>
                /\ ~workers[i].dir_exists

====
